---- MODULE Spec2Model ----
(***************************************************************************)
(* Model of the SmartDict A2A agent: the JSON-RPC dispatcher               *)
(* (src/src/a2a_handler.py), the dictionary agent                          *)
(* (src/src/dictionary_agent.py) and the webhook that drives them          *)
(* (src/src/server.py).                                                    *)
(*                                                                         *)
(* Python strings are sequences of one-character strings, so that strip,   *)
(* lower, startswith and split are computed as Python computes them.       *)
(* Texts the agent builds (f-strings) are sequences of pieces: literal     *)
(* fragments and the characters of the values interpolated into them.      *)
(* The emoji that open some literals are left out of the fragments.        *)
(* JSON values are records [t, v]: t is the JSON type ("absent" for a key  *)
(* the object does not hold), v the characters or items of the value.      *)
(***************************************************************************)
EXTENDS Integers, Sequences, FiniteSets, TLC

VARIABLES pc, payload, upstream, request_id, word, requests, outcome, http

vars == <<pc, payload, upstream, request_id, word, requests, outcome, http>>

\* ---------------------------------------------------------------- bounds
\* Longest run of spaces put before, after and (plus one) inside a text.
MaxPad == 1
\* Longest meanings list of an upstream entry.
MaxMeanings == 5

\* ------------------------------------------------------- Python strings
UpperCase == <<"A", "B", "C", "D", "E", "F", "G", "H", "I", "J", "K", "L", "M",
               "N", "O", "P", "Q", "R", "S", "T", "U", "V", "W", "X", "Y", "Z">>

LowerCase == <<"a", "b", "c", "d", "e", "f", "g", "h", "i", "j", "k", "l", "m",
               "n", "o", "p", "q", "r", "s", "t", "u", "v", "w", "x", "y", "z">>

ToLower(c) ==
    IF \E i \in DOMAIN UpperCase : UpperCase[i] = c
    THEN LowerCase[CHOOSE i \in DOMAIN UpperCase : UpperCase[i] = c]
    ELSE c

ToUpper(c) ==
    IF \E i \in DOMAIN LowerCase : LowerCase[i] = c
    THEN UpperCase[CHOOSE i \in DOMAIN LowerCase : LowerCase[i] = c]
    ELSE c

\* str.lower() and str.upper()
lower(s) == [i \in 1..Len(s) |-> ToLower(s[i])]

upper(s) == [i \in 1..Len(s) |-> ToUpper(s[i])]

IsSpace(c) == c \in {" ", "\t", "\n", "\r"}

\* str.strip(): drops the leading and the trailing whitespace
strip(s) ==
    LET keep == {i \in 1..Len(s) : ~IsSpace(s[i])}
    IN  IF keep = {} THEN <<>>
        ELSE SubSeq(s, CHOOSE i \in keep : \A j \in keep : i <= j,
                       CHOOSE i \in keep : \A j \in keep : j <= i)

\* str.startswith(prefix)
startswith(s, prefix) ==
    /\ Len(prefix) <= Len(s)
    /\ SubSeq(s, 1, Len(prefix)) = prefix

\* s[n:]
SliceFrom(s, n) == SubSeq(s, n + 1, Len(s))

\* str.split(): the maximal runs of non-whitespace characters, in order
RECURSIVE split(_)
split(s) ==
    IF s = <<>> THEN <<>>
    ELSE IF IsSpace(Head(s)) THEN split(Tail(s))
    ELSE LET stops == {i \in 1..Len(s) : IsSpace(s[i])}
             n     == IF stops = {} THEN Len(s)
                      ELSE (CHOOSE i \in stops : \A j \in stops : i <= j) - 1
         IN  <<SubSeq(s, 1, n)>> \o split(SliceFrom(s, n))

\* str(count) for the counts the formatter can reach
Digits == <<"1", "2", "3", "4", "5", "6", "7", "8", "9">>

\* ----------------------------------------------------------- JSON values
J(t, v) == [t |-> t, v |-> v]

Absent == J("absent", <<>>)

PyNone == J("null", <<>>)

JStr(s) == J("str", s)

JNum(s) == J("num", s)

JList(s) == J("list", s)

\* dict.get(key): None when the key is absent
DictGet(j) == IF j.t = "absent" THEN PyNone ELSE j

\* bool(value), as `or` and `not` read it
Truthy(j) ==
    CASE j.t \in {"absent", "null"} -> FALSE
      [] j.t = "num" -> j.v # <<"0">>
      [] OTHER -> j.v # <<>>

\* type(value).__name__
TypeName(t) ==
    CASE t = "str" -> "str"
      [] t = "num" -> "int"
      [] t = "list" -> "list"
      [] OTHER -> "NoneType"

\* str(AttributeError) of value.attr on a value that has no such attribute
AttributeError(t, attr) ==
    <<"'", TypeName(t), "' object has no attribute '", attr, "'">>

\* f"{value}"
PyStr(j) ==
    CASE j.t \in {"absent", "null"} -> <<"None">>
      [] j.t = "list" -> <<"[">> \o j.v \o <<"]">>
      [] OTHER -> j.v

\* What a call does: return a value, raise a fault, or reach the upstream GET.
Ret(v) == [k |-> "ret", v |-> v]

Raise(e) == [k |-> "raise", v |-> e]

Get(w) == [k |-> "get", v |-> w]

NoOutcome == [k |-> "none", v |-> <<>>]

\* ------------------------------------------------------ DictionaryAgent
name == "SmartDict Bot"

help_message == <<"**SmartDict Bot - How to Use**", "\n",
                  "I can help you look up word definitions! Here's how:">>

greeting_message ==
    <<"Hello! I'm ", name,
      ". Send me any word or type 'help' to learn how to use me!">>

prompt_message ==
    <<"Please provide a word to look up. Type 'help' for usage instructions.">>

help_words == {<<"h", "e", "l", "p">>, <<"/", "h", "e", "l", "p">>,
               <<"h", "o", "w", " ", "t", "o", " ", "u", "s", "e">>}

greeting_words == {<<"h", "e", "l", "l", "o">>, <<"h", "i">>, <<"h", "e", "y">>,
                   <<"g", "r", "e", "e", "t", "i", "n", "g", "s">>}

\* The list with "meaning of " moved ahead of "meaning ": the order under
\* which the longer prefix would be the one applied
prefixes_meaning_of_first ==
    << <<"d", "e", "f", "i", "n", "e", " ">>,
       <<"m", "e", "a", "n", "i", "n", "g", " ", "o", "f", " ">>,
       <<"m", "e", "a", "n", "i", "n", "g", " ">>,
       <<"w", "h", "a", "t", " ", "i", "s", " ">>,
       <<"w", "h", "a", "t", "s", " ">>,
       <<"d", "e", "f", "i", "n", "i", "t", "i", "o", "n", " ", "o", "f", " ">>,
       <<"d", "e", "f", "i", "n", "e", ":", " ">>,
       <<"m", "e", "a", "n", "i", "n", "g", ":", " ">> >>

prefixes ==
    << <<"d", "e", "f", "i", "n", "e", " ">>,
       <<"m", "e", "a", "n", "i", "n", "g", " ">>,
       <<"w", "h", "a", "t", " ", "i", "s", " ">>,
       <<"w", "h", "a", "t", "s", " ">>,
       <<"d", "e", "f", "i", "n", "i", "t", "i", "o", "n", " ", "o", "f", " ">>,
       <<"m", "e", "a", "n", "i", "n", "g", " ", "o", "f", " ">>,
       <<"d", "e", "f", "i", "n", "e", ":", " ">>,
       <<"m", "e", "a", "n", "i", "n", "g", ":", " ">> >>

\* Optional[str]
None == [some |-> FALSE, v |-> <<>>]

Some(s) == [some |-> TRUE, v |-> s]

\* _extract_word: the loop returns at the first prefix that matches
extract_word(message) ==
    LET message_lower == strip(lower(message))
        hits == {i \in DOMAIN prefixes : startswith(message_lower, prefixes[i])}
    IN  IF hits # {}
        THEN LET prefix == prefixes[CHOOSE i \in hits : \A j \in hits : i <= j]
                 w      == strip(SliceFrom(message, Len(prefix)))
             IN  IF w # <<>> THEN Some(split(w)[1]) ELSE None
        ELSE LET words == split(message)
             IN  IF words # <<>> THEN Some(words[1]) ELSE None

\* process_message without the help and greeting tests: every text with a
\* token is looked up
process_message_lookup_first(text) ==
    LET message == strip(text)
        w       == extract_word(message)
    IN  IF w.some /\ w.v # <<>> THEN Get(w.v) ELSE Ret(prompt_message)

\* process_message, up to the call of lookup_word
process_message(text) ==
    LET message       == strip(text)
        message_lower == lower(message)
    IN  IF message_lower \in help_words THEN Ret(help_message)
        ELSE IF message_lower \in greeting_words THEN Ret(greeting_message)
        ELSE LET w == extract_word(message)
             IN  IF ~(w.some /\ w.v # <<>>) THEN Ret(prompt_message)
                 ELSE Get(w.v)

\* -------------------------------------------- the upstream dictionary API
\* What requests.get does: time out, fail in transport, or answer with a
\* status and a body. A body parses as JSON or not; a parsed body is a list
\* of entries, null, or an object.
Timeout == [k |-> "timeout", status |-> 0, parse |-> "none", shape |-> "none",
            entries |-> <<>>]

TransportFault == [k |-> "fault", status |-> 0, parse |-> "none",
                   shape |-> "none", entries |-> <<>>]

Http(status, parse, shape, entries) ==
    [k |-> "http", status |-> status, parse |-> parse, shape |-> shape,
     entries |-> entries]

\* dict.get(key, default)
GetOr(j, default) == IF j.t = "absent" THEN default ELSE j

MeaningWindow == 3

SynonymLimit == 5

Min(a, b) == IF a <= b THEN a ELSE b

\* ', '.join(items)
RECURSIVE join(_)
join(items) ==
    IF items = <<>> THEN <<>>
    ELSE IF Len(items) = 1 THEN <<items[1]>>
    ELSE <<items[1], ", ">> \o join(Tail(items))

\* The text one meaning adds to the response, inside the loop of
\* _format_definition; count is the counter before the meaning.
format_meaning(meaning, count) ==
    IF meaning.shape # "obj" THEN Raise(AttributeError(meaning.shape, "get"))
    ELSE LET part_of_speech == GetOr(meaning.partOfSpeech, JStr(<<"unknown">>))
             definitions    == meaning.definitions
         IN  IF definitions = <<>> THEN Ret(<<>>)
             ELSE LET definition == definitions[1]
                  IN  IF definition.shape # "obj"
                      THEN Raise(AttributeError(definition.shape, "get"))
                      ELSE LET def_text == GetOr(definition.definition, JStr(<<>>))
                               example  == GetOr(definition.example, JStr(<<>>))
                           IN  Ret(<<"**", Digits[count + 1], ". (">>
                                   \o PyStr(part_of_speech)
                                   \o <<")**", "\n", "   ">>
                                   \o PyStr(def_text) \o <<"\n">>
                                   \o (IF Truthy(example)
                                       THEN <<"   Example: _">> \o PyStr(example)
                                            \o <<"_", "\n">>
                                       ELSE <<>>)
                                   \o <<"\n">>)

\* for meaning in <the meanings given>: ...; the loop stops at the first fault
RECURSIVE format_loop(_, _)
format_loop(meanings, count) ==
    IF meanings = <<>> THEN Ret(<<>>)
    ELSE LET one == format_meaning(Head(meanings), count)
         IN  IF one.k = "raise" THEN one
             ELSE LET rest == format_loop(Tail(meanings),
                                          IF one.v = <<>> THEN count ELSE count + 1)
                  IN  IF rest.k = "raise" THEN rest ELSE Ret(one.v \o rest.v)

HasDefinitions(meaning) == meaning.shape # "obj" \/ meaning.definitions # <<>>

\* The loop over the first 3 meanings that hold a definition: the filter
\* applied before the window
format_meanings_filter_first(meanings) ==
    LET kept == SelectSeq(meanings, HasDefinitions)
    IN  format_loop(SubSeq(kept, 1, Min(MeaningWindow, Len(kept))), 0)

\* for meaning in meanings[:3]
format_meanings(meanings) ==
    format_loop(SubSeq(meanings, 1, Min(MeaningWindow, Len(meanings))), 0)

\* response.strip(): the response opens with "**", so only its tail can go
RECURSIVE strip_pieces(_)
strip_pieces(r) ==
    IF r = <<>> THEN r
    ELSE IF r[Len(r)] \in {"\n", "\n\n", "   ", " ", ""}
    THEN strip_pieces(SubSeq(r, 1, Len(r) - 1))
    ELSE r

no_definition_message(w) == <<"No definition found for '">> \o w \o <<"'.">>

no_meanings_message(w) == <<"No meanings found for '">> \o w \o <<"'.">>

format_error_message(w) ==
    <<"Error formatting the definition for '">> \o w \o <<"'.">>

header(w, phonetic) ==
    <<"**">> \o upper(w) \o <<"**">>
    \o (IF Truthy(phonetic) THEN <<" _">> \o PyStr(phonetic) \o <<"_">> ELSE <<>>)

\* The try block of _format_definition
format_definition_body(w, data) ==
    IF data.shape \in {"null", "dict_empty"} \/ (data.shape = "list" /\ data.entries = <<>>)
    THEN Ret(no_definition_message(w))
    ELSE IF data.shape # "list" THEN Raise(<<"0">>)
    ELSE LET entry == data.entries[1]
         IN  IF entry.shape # "obj" THEN Raise(AttributeError(entry.shape, "get"))
             ELSE LET phonetic == GetOr(entry.phonetic, JStr(<<>>))
                      meanings == IF entry.meanings.shape = "list"
                                  THEN entry.meanings.items ELSE <<>>
                  IN  IF meanings = <<>> THEN Ret(no_meanings_message(w))
                      ELSE LET body == format_meanings(meanings)
                               syn  == meanings[1].synonyms
                           IN  IF body.k = "raise" THEN body
                               ELSE Ret(strip_pieces(
                                        header(w, phonetic) \o <<"\n\n">> \o body.v
                                        \o (IF syn # <<>>
                                            THEN <<"Similar words: ">>
                                                 \o join(SubSeq(syn, 1, Min(SynonymLimit, Len(syn))))
                                                 \o <<"\n">>
                                            ELSE <<>>)))

\* _format_definition without the test of lines 105-106: an entry without
\* meanings is formatted as header alone
format_definition_no_meanings_check(w, data) ==
    IF data.shape = "list" /\ data.entries # <<>> /\ data.entries[1].shape = "obj"
       /\ (data.entries[1].meanings.shape # "list" \/ data.entries[1].meanings.items = <<>>)
    THEN strip_pieces(header(w, GetOr(data.entries[1].phonetic, JStr(<<>>))) \o <<"\n\n">>)
    ELSE LET r == format_definition_body(w, data)
         IN  IF r.k = "raise" THEN format_error_message(w) ELSE r.v

\* _format_definition: every fault of the try block becomes the fixed text
format_definition(w, data) ==
    LET r == format_definition_body(w, data)
    IN  IF r.k = "raise" THEN format_error_message(w) ELSE r.v

not_found_message(w) ==
    <<"Sorry, I couldn't find '">> \o w
    \o <<"' in my dictionary. Please check the spelling.">>

trouble_message(w) ==
    <<"I had trouble looking up '">> \o w \o <<"'. Please try again later.">>

timeout_message(w) ==
    <<"Request timed out while looking up '">> \o w \o <<"'. Please try again.">>

unexpected_message == <<"An unexpected error occurred. Please try again.">>

\* lookup_word without its except clauses: a failed GET raises
lookup_word_raises(w, up) ==
    CASE up.k = "timeout" -> Raise(<<"Read timed out.">>)
      [] up.k = "fault" -> Raise(<<"Connection refused">>)
      [] up.status # 200 -> Raise(<<"HTTP error">>)
      [] up.parse # "ok" -> Raise(<<"Expecting value: line 1 column 1 (char 0)">>)
      [] OTHER -> Ret(format_definition(w, up))

\* lookup_word, from the answer of requests.get on
lookup_word(w, up) ==
    CASE up.k = "timeout" -> Ret(timeout_message(w))
      [] up.k = "fault" -> Ret(unexpected_message)
      [] up.status = 404 -> Ret(not_found_message(w))
      [] up.status # 200 -> Ret(trouble_message(w))
      [] up.parse # "ok" -> Ret(unexpected_message)
      [] OTHER -> Ret(format_definition(w, up))

\* ------------------------------------------------------------ A2AHandler
create_success_response(id, result) ==
    [jsonrpc |-> "2.0", result |-> result, id |-> id]

\* An error envelope that answers with a null id
create_error_response_drops_id(id, code, message) ==
    [jsonrpc |-> "2.0", error |-> [code |-> code, message |-> message],
     id |-> PyNone]

create_error_response(id, code, message) ==
    [jsonrpc |-> "2.0", error |-> [code |-> code, message |-> message],
     id |-> id]

get_agent_info ==
    [name |-> name, version |-> "1.0.0",
     capabilities |-> <<"message", "definitions", "examples">>,
     commands |-> <<"define", "meaning", "help">>, status |-> "online"]

\* The result of a handled message: the same text under four keys
message_result(bot_response) ==
    [type |-> "message", content |-> bot_response, format |-> "text",
     message |-> bot_response, text |-> bot_response,
     response |-> bot_response, status |-> "success", agent |-> "SmartDict Bot"]

EmptyDict == [shape |-> "obj", message |-> Absent, text |-> Absent,
              content |-> Absent, input |-> Absent]

\* a or b or c or d or ""
FirstTruthy(params) ==
    CASE Truthy(params.message) -> params.message
      [] Truthy(params.text) -> params.text
      [] Truthy(params.content) -> params.content
      [] Truthy(params.input) -> params.input
      [] OTHER -> JStr(<<>>)

\* The try block of _handle_message, up to the call of lookup_word
handle_message_body(params, id) ==
    IF params.shape # "obj" THEN Raise(AttributeError(params.shape, "get"))
    ELSE LET message_text == FirstTruthy(params)
         IN  IF ~Truthy(message_text)
             THEN Ret(create_error_response(id, -32602, <<"No message content provided">>))
             ELSE IF message_text.t # "str"
             THEN Raise(AttributeError(message_text.t, "strip"))
             ELSE IF Len(strip(message_text.v)) = 0
             THEN Ret(create_error_response(id, -32602, <<"No message content provided">>))
             ELSE LET r == process_message(message_text.v)
                  IN  IF r.k = "ret"
                      THEN Ret(create_success_response(id, message_result(r.v)))
                      ELSE r

\* _handle_message without its except clause: a fault reaches the caller
handle_message_no_try(params, id) == handle_message_body(params, id)

\* _handle_message: its own except clause answers every fault of the block
handle_message(params, id) ==
    LET r == handle_message_body(params, id)
    IN  IF r.k = "raise"
        THEN Ret(create_error_response(id, -32603,
                                       <<"Error processing message: ">> \o r.v))
        ELSE r

\* _handle_message, from the return of lookup_word on
message_reply(id, r) ==
    IF r.k = "raise"
    THEN create_error_response(id, -32603, <<"Error processing message: ">> \o r.v)
    ELSE create_success_response(id, message_result(r.v))

ParamsOf(p) == IF p.params.shape = "absent" THEN EmptyDict ELSE p.params

\* The methods of the dispatcher, after the version check
route(p) ==
    LET method == DictGet(p.method)
        params == ParamsOf(p)
        id     == DictGet(p.id)
    IN  CASE method = JStr(<<"m", "e", "s", "s", "a", "g", "e">>) ->
               handle_message(params, id)
          [] method = JStr(<<"p", "i", "n", "g">>) ->
               Ret(create_success_response(id, [status |-> "ok", agent |-> name]))
          [] method = JStr(<<"i", "n", "f", "o">>) ->
               Ret(create_success_response(id, get_agent_info))
          [] OTHER ->
               Ret(create_error_response(id, -32601,
                                         <<"Method not found: ">> \o PyStr(method)))

\* The try block with the known methods routed before the version is read
handle_body_routes_first(p) ==
    IF p.shape # "obj" THEN Raise(AttributeError(p.shape, "get"))
    ELSE IF DictGet(p.method) \in {JStr(<<"m", "e", "s", "s", "a", "g", "e">>),
                                   JStr(<<"p", "i", "n", "g">>),
                                   JStr(<<"i", "n", "f", "o">>)}
    THEN route(p)
    ELSE IF DictGet(p.jsonrpc) # JStr(<<"2", ".", "0">>)
    THEN Ret(create_error_response(DictGet(p.id), -32600, <<"Invalid JSON-RPC version">>))
    ELSE route(p)

\* The try block of handle_a2a_message
handle_body(p) ==
    IF p.shape # "obj" THEN Raise(AttributeError(p.shape, "get"))
    ELSE IF DictGet(p.jsonrpc) # JStr(<<"2", ".", "0">>)
    THEN Ret(create_error_response(DictGet(p.id), -32600, <<"Invalid JSON-RPC version">>))
    ELSE route(p)

\* handle_a2a_message, up to the call of lookup_word: the except clause reads
\* payload.get("id") again, which raises when the payload is no object
handle_a2a_message(p) ==
    LET r == handle_body(p)
    IN  IF r.k # "raise" THEN r
        ELSE IF p.shape # "obj" THEN Raise(AttributeError(p.shape, "get"))
        ELSE Ret(create_error_response(DictGet(p.id), -32603,
                                       <<"Internal error: ">> \o r.v))

\* a2a_webhook: the handler's envelope, or 500 when the handler raised
a2a_webhook(o) ==
    IF o.k = "ret" THEN [status_code |-> 200, content |-> o.v]
    ELSE [status_code |-> 500,
          content |-> [jsonrpc |-> "2.0",
                       error |-> [code |-> -32603,
                                  message |-> <<"Internal server error: ">> \o o.v],
                       id |-> PyNone]]

\* ------------------------------------------------- the requests modelled
Spaces(n) == [i \in 1..n |-> " "]

Heads ==
    {<<>>,
     <<"d", "e", "f", "i", "n", "e">>,
     <<"m", "e", "a", "n", "i", "n", "g">>,
     <<"w", "h", "a", "t", " ", "i", "s">>,
     <<"w", "h", "a", "t", "s">>,
     <<"d", "e", "f", "i", "n", "i", "t", "i", "o", "n", " ", "o", "f">>,
     <<"m", "e", "a", "n", "i", "n", "g", " ", "o", "f">>,
     <<"d", "e", "f", "i", "n", "e", ":">>,
     <<"m", "e", "a", "n", "i", "n", "g", ":">>,
     <<"h", "e", "l", "p">>,
     <<"/", "h", "e", "l", "p">>,
     <<"h", "o", "w", " ", "t", "o", " ", "u", "s", "e">>,
     <<"h", "e", "l", "l", "o">>,
     <<"h", "i">>,
     <<"h", "e", "y">>,
     <<"g", "r", "e", "e", "t", "i", "n", "g", "s">>,
     <<"c", "a", "t">>,
     <<"D", "E", "F", "I", "N", "E">>,
     <<"H", "e", "l", "p">>,
     <<"M", "e", "a", "n", "i", "n", "g", " ", "O", "f">>}

Tails == {<<>>, <<"c", "a", "t">>, <<"D", "o", "g", " ", "x">>}

\* The message texts: a head, then perhaps spaces and a tail, padded
Texts ==
    {Spaces(l) \o h \o (IF t = <<>> THEN <<>> ELSE Spaces(k) \o t) \o Spaces(r) :
        l \in 0..MaxPad, r \in 0..MaxPad, k \in 1..(MaxPad + 1),
        h \in Heads, t \in Tails}

Params(message, text, content, input) ==
    [shape |-> "obj", message |-> message, text |-> text, content |-> content,
     input |-> input]

\* params that is no object: absent, null, a list, a string or a number
NonDictParams(shape) ==
    [shape |-> shape, message |-> Absent, text |-> Absent, content |-> Absent,
     input |-> Absent]

Envelope(jsonrpc, method, params, id) ==
    [shape |-> "obj", jsonrpc |-> jsonrpc, method |-> method,
     params |-> params, id |-> id]

\* A parsed body that is no JSON object
NonObject(shape) ==
    [shape |-> shape, jsonrpc |-> Absent, method |-> Absent,
     params |-> NonDictParams("absent"), id |-> Absent]

V2 == JStr(<<"2", ".", "0">>)

MessageMethod == JStr(<<"m", "e", "s", "s", "a", "g", "e">>)

ReqId == JStr(<<"r", "e", "q", "-", "1">>)

DefineCat == JStr(<<"d", "e", "f", "i", "n", "e", " ", "c", "a", "t">>)

Versions == {V2, Absent, PyNone, JStr(<<"1", ".", "0">>), JNum(<<"2">>)}

Methods == {MessageMethod, JStr(<<"p", "i", "n", "g">>), JStr(<<"i", "n", "f", "o">>),
            JStr(<<"s", "h", "o", "u", "t">>), Absent, PyNone, JNum(<<"7">>)}

Ids == {Absent, PyNone, ReqId, JNum(<<"7">>)}

EnvelopeParams ==
    {NonDictParams(sh) : sh \in {"absent", "null", "list", "str", "num"}}
    \cup {Params(DefineCat, Absent, Absent, Absent),
          Params(JStr(<<"h", "e", "l", "p">>), Absent, Absent, Absent)}

FieldValues(w) == {Absent, JStr(<<>>), JStr(w), JNum(<<"5">>)}

MessageFieldValues ==
    FieldValues(<<"c", "a", "t">>)
    \cup {PyNone, JNum(<<"0">>), JList(<<>>), JList(<<"x">>), JStr(<<" ">>)}

EnvelopePayloads ==
    {Envelope(v, m, ps, id) : v \in Versions, m \in Methods,
                              ps \in EnvelopeParams, id \in Ids}

NonObjectPayloads == {NonObject(sh) : sh \in {"list", "null", "str", "num"}}

TextPayloads ==
    {Envelope(V2, MessageMethod, Params(JStr(t), Absent, Absent, Absent), ReqId) :
        t \in Texts}

FieldPayloads ==
    {Envelope(V2, MessageMethod, Params(a, b, c, d), ReqId) :
        a \in MessageFieldValues, b \in FieldValues(<<"d", "o", "g">>),
        c \in FieldValues(<<"o", "w", "l">>), d \in FieldValues(<<"e", "m", "u">>)}

AllPayloads ==
    EnvelopePayloads \cup NonObjectPayloads \cup TextPayloads \cup FieldPayloads

BasicPayloads ==
    {Envelope(V2, MessageMethod, Params(DefineCat, Absent, Absent, Absent), ReqId),
     Envelope(V2, MessageMethod,
              Params(Absent, JStr(<<"D", "o", "g">>), Absent, Absent), JNum(<<"7">>))}

\* -------------------------------------------- the upstream answers modelled
Definition(text, example) ==
    [shape |-> "obj", definition |-> text, example |-> example]

PosOf(i) == JStr(<<"pos-", Digits[i]>>)

DefText(i) == JStr(<<"def-", Digits[i]>>)

Kinds == {"empty", "plain", "example", "bad"}

\* The meaning at raw index i: with no definition, with two plain ones, with
\* one that holds an example, or a string where the object should be
Meaning(i, kind, synonyms) ==
    CASE kind = "bad" ->
           [shape |-> "str", partOfSpeech |-> Absent, definitions |-> <<>>,
            synonyms |-> <<>>]
      [] kind = "empty" ->
           [shape |-> "obj", partOfSpeech |-> PosOf(i), definitions |-> <<>>,
            synonyms |-> synonyms]
      [] kind = "plain" ->
           [shape |-> "obj", partOfSpeech |-> PosOf(i),
            definitions |-> <<Definition(DefText(i), Absent),
                              Definition(JStr(<<"second">>), Absent)>>,
            synonyms |-> synonyms]
      [] kind = "example" ->
           [shape |-> "obj", partOfSpeech |-> PosOf(i),
            definitions |-> <<Definition(DefText(i), JStr(<<"ex-", Digits[i]>>))>>,
            synonyms |-> synonyms]
      [] kind = "nopos" ->
           [shape |-> "obj", partOfSpeech |-> Absent,
            definitions |-> <<Definition(Absent, JStr(<<>>))>>,
            synonyms |-> synonyms]
      [] OTHER ->
           [shape |-> "obj", partOfSpeech |-> PosOf(i),
            definitions |-> <<[shape |-> "str", definition |-> Absent,
                               example |-> Absent]>>,
            synonyms |-> synonyms]

MeaningLists(synonyms) ==
    UNION {{[i \in 1..n |-> Meaning(i, ks[i], IF i = 1 THEN synonyms ELSE <<>>)] :
               ks \in [1..n -> Kinds]} : n \in 0..MaxMeanings}

Entry(phonetic, meanings_shape, items) ==
    [shape |-> "obj", phonetic |-> phonetic,
     meanings |-> [shape |-> meanings_shape, items |-> items]]

BadEntry == [shape |-> "str", phonetic |-> Absent,
             meanings |-> [shape |-> "absent", items |-> <<>>]]

Kat == JStr(<<"/", "k", "a", "t", "/">>)

SixSynonyms == <<"feline", "kitty", "moggy", "puss", "tabby", "tom">>

Ok200(entries) == Http(200, "ok", "list", entries)

FormattedUpstreams ==
    {Ok200(<<Entry(ph, "list", ms)>>) :
        ph \in {Absent, Kat}, ms \in MeaningLists(<<>>) \cup MeaningLists(SixSynonyms)}

OddUpstreams ==
    {Http(200, "ok", "null", <<>>), Http(200, "ok", "dict_empty", <<>>),
     Http(200, "ok", "dict", <<>>), Ok200(<<BadEntry>>),
     Ok200(<<Entry(Kat, "absent", <<>>)>>), Ok200(<<Entry(Kat, "null", <<>>)>>),
     Ok200(<<Entry(JStr(<<>>), "list", <<Meaning(1, "nopos", <<"puss", "tom">>)>>)>>),
     Ok200(<<Entry(PyNone, "list", <<Meaning(1, "baddef", <<>>)>>)>>),
     Ok200(<<Entry(Absent, "list", <<Meaning(1, "example", <<>>)>>), BadEntry>>),
     Ok200(<<Entry(Absent, "list", <<>>), Entry(Kat, "list", <<Meaning(1, "plain", <<>>)>>)>>)}

BasicUpstreams ==
    {Timeout, TransportFault, Http(404, "ok", "dict", <<>>),
     Http(500, "invalid", "none", <<>>), Http(429, "ok", "dict", <<>>),
     Http(200, "invalid", "none", <<>>), Ok200(<<>>),
     Ok200(<<Entry(Kat, "list", <<Meaning(1, "example", <<"puss", "tom">>)>>)>>)}

AllUpstreams == BasicUpstreams \cup OddUpstreams \cup FormattedUpstreams

\* ------------------------------------------------------ the state machine
NoRequest == NonObject("none")

NoUpstream == [k |-> "none", status |-> 0, parse |-> "none", shape |-> "none",
               entries |-> <<>>]

NoHttp == [status_code |-> 0, content |-> <<>>]

Init ==
    /\ pc = "idle"
    /\ payload = NoRequest
    /\ upstream = NoUpstream
    /\ request_id = PyNone
    /\ word = <<>>
    /\ requests = <<>>
    /\ outcome = NoOutcome
    /\ http = NoHttp

\* A POST reaches the webhook with a parsed body p; u is what the dictionary
\* API will answer should this request reach it.
Receive(p, u) ==
    /\ pc = "idle"
    /\ pc' = "dispatching"
    /\ payload' = p
    /\ upstream' = u
    /\ UNCHANGED <<request_id, word, requests, outcome, http>>

\* handle_a2a_message runs until it returns, raises, or issues the GET
Dispatch ==
    /\ pc = "dispatching"
    /\ \E r \in {handle_a2a_message(payload)} :
           IF r.k = "get"
           THEN /\ pc' = "awaiting"
                /\ request_id' = DictGet(payload.id)
                /\ word' = r.v
                /\ requests' = Append(requests, lower(r.v))
                /\ UNCHANGED outcome
           ELSE /\ pc' = IF r.k = "ret" THEN "done" ELSE "raised"
                /\ outcome' = r
                /\ UNCHANGED <<request_id, word, requests>>
    /\ UNCHANGED <<payload, upstream, http>>

\* requests.get comes back; lookup_word and _handle_message run to the end
UpstreamReply ==
    /\ pc = "awaiting"
    /\ pc' = "done"
    /\ outcome' = Ret(message_reply(request_id, lookup_word(word, upstream)))
    /\ UNCHANGED <<payload, upstream, request_id, word, requests, http>>

\* a2a_webhook sends what the handler returned, or 500 when it raised
Respond ==
    /\ pc \in {"done", "raised"}
    /\ pc' = "replied"
    /\ http' = a2a_webhook(outcome)
    /\ UNCHANGED <<payload, upstream, request_id, word, requests, outcome>>

\* Nothing of a request outlives it
Close ==
    /\ pc = "replied"
    /\ pc' = "idle"
    /\ payload' = NoRequest
    /\ upstream' = NoUpstream
    /\ request_id' = PyNone
    /\ word' = <<>>
    /\ requests' = <<>>
    /\ outcome' = NoOutcome
    /\ http' = NoHttp

Next ==
    \/ pc = "idle" /\ \E p \in AllPayloads, u \in BasicUpstreams : Receive(p, u)
    \/ pc = "idle" /\ \E p \in BasicPayloads, u \in AllUpstreams : Receive(p, u)
    \/ Dispatch
    \/ UpstreamReply
    \/ Respond
    \/ Close

Spec == Init /\ [][Next]_vars

\* ------------------------------------------------------------ properties
\* The request at hand, as the properties read it
IsEnvelope == payload.shape = "obj"

EchoedId == IF payload.id.t = "absent" THEN PyNone ELSE payload.id

VersionOk == IsEnvelope /\ payload.jsonrpc = V2

IsMessageCall == VersionOk /\ payload.method = MessageMethod

ParamsIsMapping == payload.params.shape \in {"obj", "absent"}

MessageText == FirstTruthy(ParamsOf(payload))

\* A message call whose text is a string with something but spaces in it
HasText ==
    /\ IsMessageCall
    /\ ParamsIsMapping
    /\ MessageText.t = "str"
    /\ \E i \in DOMAIN MessageText.v : ~IsSpace(MessageText.v[i])

\* The text of a message call, trimmed
Trimmed == strip(MessageText.v)

Returned == outcome.k = "ret"

IsSuccess == Returned /\ "result" \in DOMAIN outcome.v

IsError == Returned /\ "error" \in DOMAIN outcome.v

ExactlyOneMember ==
    ("result" \in DOMAIN outcome.v) # ("error" \in DOMAIN outcome.v)

Handled == pc \in {"done", "raised", "replied"}

LookedUp == requests # <<>>

BeginsWith(text, start) ==
    Len(start) <= Len(text) /\ \A i \in DOMAIN start : text[i] = start[i]

\* C1: whatever parsed payload the handler is given, malformed ones included,
\* it returns an envelope with exactly one of result and error and raises
\* nothing to its caller.
C1_NeverPropagates ==
    Handled => Returned /\ ExactlyOneMember

\* C2: a version-2.0 message call with non-blank string text is answered by a
\* success envelope that carries a text, whatever the dictionary API did
\* (404, another status, timeout, transport fault, unusable body): never by
\* an error envelope.
C2_UpstreamFailureIsResult ==
    (Handled /\ HasText) =>
        /\ IsSuccess
        /\ ~IsError
        /\ outcome.v.result.status = "success"
        /\ outcome.v.result.content # <<>>
        /\ outcome.v.result.text = outcome.v.result.content

C2_Witness ==
    /\ pc = "done" /\ HasText /\ LookedUp
    /\ upstream.k = "timeout"
    /\ IsSuccess
    /\ BeginsWith(outcome.v.result.content, <<"Request timed out while looking up '">>)

BarePrefixWords ==
    {<<"d", "e", "f", "i", "n", "e">>,
     <<"m", "e", "a", "n", "i", "n", "g">>,
     <<"w", "h", "a", "t", " ", "i", "s">>,
     <<"w", "h", "a", "t", "s">>,
     <<"d", "e", "f", "i", "n", "i", "t", "i", "o", "n", " ", "o", "f">>,
     <<"m", "e", "a", "n", "i", "n", "g", " ", "o", "f">>,
     <<"d", "e", "f", "i", "n", "e", ":">>,
     <<"m", "e", "a", "n", "i", "n", "g", ":">>}

\* C3: a text that is a prefix word with nothing after it ("define",
\* "define   ", "meaning ") gets the "Please provide a word" prompt, and no
\* lookup is made for it.
C3_BarePrefixPrompts ==
    (HasText /\ lower(Trimmed) \in BarePrefixWords /\ pc # "dispatching") =>
        /\ ~LookedUp
        /\ IsSuccess
        /\ outcome.v.result.content = prompt_message

\* A fault inside the message branch: params is no mapping, or the text
\* selected is a value that is not a string
MessageBranchFault ==
    /\ IsMessageCall
    /\ \/ ~ParamsIsMapping
       \/ Truthy(MessageText) /\ MessageText.t # "str"

\* C4 as stated: a fault raised inside the message branch becomes an error
\* envelope with code -32603, the request id, and a message that is
\* "Internal error: " followed by the fault's text.
C4_InternalErrorPrefix ==
    (Handled /\ MessageBranchFault) =>
        /\ IsError
        /\ outcome.v.error.code = -32603
        /\ Head(outcome.v.error.message) = "Internal error: "
        /\ outcome.v.id = EchoedId

\* C4 as amended: a fault raised inside the message branch is answered by
\* the branch's own handler: an error envelope with code -32603, the request
\* id, and a message that is "Error processing message: " followed by the
\* fault's text.
C4_MessageFaultPrefix ==
    (Handled /\ MessageBranchFault) =>
        /\ IsError
        /\ outcome.v.error.code = -32603
        /\ Head(outcome.v.error.message) = "Error processing message: "
        /\ Tail(outcome.v.error.message) =
               IF ~ParamsIsMapping
               THEN <<"'", TypeName(payload.params.shape),
                      "' object has no attribute '", "get", "'">>
               ELSE <<"'", TypeName(MessageText.t),
                      "' object has no attribute '", "strip", "'">>
        /\ outcome.v.id = EchoedId

C4_Witness ==
    /\ pc = "done" /\ MessageBranchFault
    /\ payload.params.shape = "list"
    /\ payload.id = ReqId
    /\ IsError
    /\ outcome.v.error.code = -32603

\* C5: an envelope whose version is not exactly "2.0" (absent included) is
\* answered by the error -32600 "Invalid JSON-RPC version" with the
\* envelope's id (null when absent), whatever its method and params, and no
\* lookup is issued for it.
C5_VersionCheckedFirst ==
    (IsEnvelope /\ payload.jsonrpc # V2 /\ pc # "dispatching") =>
        /\ Handled
        /\ ~LookedUp
        /\ outcome = Ret([jsonrpc |-> "2.0",
                          error |-> [code |-> -32600,
                                     message |-> <<"Invalid JSON-RPC version">>],
                          id |-> EchoedId])

C5_Witness ==
    /\ pc = "done" /\ IsEnvelope
    /\ payload.jsonrpc.t = "absent"
    /\ payload.method = MessageMethod
    /\ payload.params.message = DefineCat
    /\ payload.id.t = "absent"
    /\ IsError /\ outcome.v.error.code = -32600 /\ outcome.v.id = PyNone

\* The answer of the dictionary API, as the properties read it: a 200 whose
\* body is a list of entries
Is200List == upstream.k = "http" /\ upstream.status = 200
             /\ upstream.parse = "ok" /\ upstream.shape = "list"

FirstEntry == upstream.entries[1]

HasEntry == Is200List /\ upstream.entries # <<>> /\ FirstEntry.shape = "obj"

RawMeanings ==
    IF FirstEntry.meanings.shape = "list" THEN FirstEntry.meanings.items ELSE <<>>

\* The raw indices of the first three meanings
Window == {i \in DOMAIN RawMeanings : i <= 3}

\* The meanings of the window are objects that hold a part of speech, and
\* the first definition of each, if any, is an object that holds its text
WindowWellShaped ==
    \A i \in Window :
        /\ RawMeanings[i].shape = "obj"
        /\ RawMeanings[i].partOfSpeech.t = "str"
        /\ RawMeanings[i].definitions # <<>> =>
               /\ RawMeanings[i].definitions[1].shape = "obj"
               /\ RawMeanings[i].definitions[1].definition.t = "str"

TextSent == outcome.v.result.content

\* The k-th smallest member of a set of numbers
Nth(S, k) == CHOOSE i \in S : Cardinality({j \in S : j < i}) = k - 1

\* The places of the output where a numbered entry opens: "N. (" follows "**"
EntryPlaces == {i \in DOMAIN TextSent : TextSent[i] = ". ("}

\* The raw indices of the window's meanings that hold a definition
Shown == {i \in Window : RawMeanings[i].definitions # <<>>}

\* The text of the k-th numbered entry, as it must read for raw meaning i
EntryText(k, i) ==
    <<"**", Digits[k], ". (">> \o RawMeanings[i].partOfSpeech.v
    \o <<")**", "\n", "   ">> \o RawMeanings[i].definitions[1].definition.v

\* C6: the numbered entries of a formatted answer are the meanings among the
\* first 3 of the raw list that hold a definition, numbered 1..k in source
\* order; a meaning at raw index 3 or more (from 0) never shows, and an empty
\* meaning inside the window is not made up for by a later one.
C6_WindowThenFilter ==
    (pc = "done" /\ LookedUp /\ HasEntry /\ RawMeanings # <<>> /\ WindowWellShaped) =>
        /\ Cardinality(EntryPlaces) = Cardinality(Shown)
        /\ \A k \in 1..Cardinality(Shown) :
               LET at == Nth(EntryPlaces, k) - 2
                   e  == EntryText(k, Nth(Shown, k))
               IN  /\ at >= 1
                   /\ SubSeq(TextSent, at, at + Len(e) - 1) = e

C6_Witness ==
    /\ pc = "done" /\ LookedUp /\ HasEntry /\ WindowWellShaped
    /\ Len(RawMeanings) = 5
    /\ \A i \in DOMAIN RawMeanings :
           RawMeanings[i].shape = "obj" /\ (RawMeanings[i].definitions = <<>> <=> i = 2)
    /\ Cardinality(EntryPlaces) = 2
    /\ TextSent[Nth(EntryPlaces, 2) - 1] = "2"
    /\ TextSent[Nth(EntryPlaces, 2) + 2] = "3"

\* The header of a formatted answer: the word in capitals between "**", then
\* the phonetic text between " _" and "_" when the entry holds one
ExpectedHeader ==
    <<"**">> \o [i \in DOMAIN word |-> ToUpper(word[i])] \o <<"**">>
    \o (IF FirstEntry.phonetic.t = "str" /\ FirstEntry.phonetic.v # <<>>
        THEN <<" _">> \o FirstEntry.phonetic.v \o <<"_">>
        ELSE <<>>)

NoDefinitionText == <<"No definition found for '">> \o word \o <<"'.">>

\* C7 as stated: on a 200, only an empty list of entries gives "No definition
\* found"; any list that holds an entry, one without meanings included,
\* gives the formatted first entry, which opens with the header.
C7_EveryEntryFormatted ==
    (pc = "done" /\ LookedUp /\ Is200List) =>
        /\ TextSent = NoDefinitionText => upstream.entries = <<>>
        /\ (HasEntry /\ WindowWellShaped) => BeginsWith(TextSent, ExpectedHeader)

\* C7 as amended: on a 200, only an empty list of entries gives "No
\* definition found"; a first entry whose meanings are empty or absent gives
\* "No meanings found for '{word}'." and no header; any other first entry,
\* when formatting meets no fault, gives the formatted entry, which opens
\* with the header.
C7_EntryWithMeaningsFormatted ==
    (pc = "done" /\ LookedUp /\ Is200List) =>
        /\ TextSent = NoDefinitionText => upstream.entries = <<>>
        /\ (HasEntry /\ RawMeanings = <<>>) =>
               TextSent = <<"No meanings found for '">> \o word \o <<"'.">>
        /\ (HasEntry /\ RawMeanings # <<>> /\ WindowWellShaped) =>
               BeginsWith(TextSent, ExpectedHeader)

C7_Witness ==
    /\ pc = "done" /\ LookedUp /\ HasEntry
    /\ FirstEntry.meanings.shape = "absent"
    /\ FirstEntry.phonetic = Kat
    /\ TextSent = <<"No meanings found for '", "c", "a", "t", "'.">>

\* C8: every envelope the handler returns carries the id of the request as
\* it came (null when the request has none) and exactly one of result and
\* error.
C8_IdEchoedOneMember ==
    Returned => outcome.v.id = EchoedId /\ ExactlyOneMember

C8_Witness ==
    /\ pc = "done" /\ Returned
    /\ payload.id = JNum(<<"7">>)
    /\ payload.method = JStr(<<"s", "h", "o", "u", "t">>)
    /\ IsError /\ ~IsSuccess
    /\ outcome.v.id = JNum(<<"7">>)

\* The texts that are answered without a lookup
HelpOrGreeting ==
    lower(Trimmed) \in
        {<<"h", "e", "l", "p">>, <<"/", "h", "e", "l", "p">>,
         <<"h", "o", "w", " ", "t", "o", " ", "u", "s", "e">>,
         <<"h", "e", "l", "l", "o">>, <<"h", "i">>, <<"h", "e", "y">>,
         <<"g", "r", "e", "e", "t", "i", "n", "g", "s">>}

\* C9: one request issues the upstream GET at most once, whatever the answer
\* (a failure is reported, not tried again), and not at all for ping, info,
\* an unknown method, a version error, missing content, help or a greeting.
C9_AtMostOneGet ==
    /\ Len(requests) <= 1
    /\ (~HasText \/ HelpOrGreeting) => requests = <<>>

C9_Witness ==
    /\ pc = "replied" /\ HasText
    /\ upstream.k = "http" /\ upstream.status = 404
    /\ requests = <<<<"d", "o", "g">>>>
    /\ http.status_code = 200

MeaningOf == <<"m", "e", "a", "n", "i", "n", "g", " ", "o", "f", " ">>

\* w is the first whitespace-delimited token of s
IsFirstToken(w, s) ==
    /\ w # <<>>
    /\ \A i \in DOMAIN w : ~IsSpace(w[i])
    /\ \E a \in 0..Len(s) :
           /\ \A i \in 1..a : IsSpace(s[i])
           /\ a + Len(w) <= Len(s)
           /\ \A i \in DOMAIN w : s[a + i] = w[i]
           /\ a + Len(w) = Len(s) \/ IsSpace(s[a + Len(w) + 1])

\* The places in the list of the prefixes the lower-cased trimmed text opens with
Matching == {i \in DOMAIN prefixes : BeginsWith(lower(Trimmed), prefixes[i])}

\* C10: the word looked up is the first token of what follows the first
\* prefix of the list, in list order, that the lower-cased trimmed text
\* opens with; "meaning of " is never that prefix, and "meaning of W" yields
\* "of".
C10_FirstPrefixWins ==
    (pc = "awaiting" /\ HasText /\ Matching # {}) =>
        LET first == CHOOSE i \in Matching : \A j \in Matching : i <= j
        IN  /\ IsFirstToken(word, SubSeq(Trimmed, Len(prefixes[first]) + 1, Len(Trimmed)))
            /\ prefixes[first] # MeaningOf
            /\ BeginsWith(lower(Trimmed), MeaningOf) => lower(word) = <<"o", "f">>

C10_Witness ==
    /\ pc = "awaiting" /\ HasText
    /\ Trimmed = <<"m", "e", "a", "n", "i", "n", "g", " ", "o", "f", " ", "c", "a", "t">>
    /\ word = <<"o", "f">>
    /\ requests = <<<<"o", "f">>>>

====
